---- MODULE Spec2Model ----
(***************************************************************************)
(* A model of rflog's Logger (src/src/rflog/_logger_utils.py): the active  *)
(* files .latest.log / .latest_error.log, their rotation into dated files, *)
(* and the copy-then-swap rebuild of the zip archives.                     *)
(*                                                                         *)
(* Representation.                                                         *)
(*   - a calendar date is its day number (days since 1970-01-01), the      *)
(*     value datetime.date arithmetic works on;                            *)
(*   - the text "YYYYMMDD" is the integer y*10000 + m*100 + d; strftime    *)
(*     and strptime are computed through the civil calendar;               *)
(*   - a timestamp line "YYYY-MM-DD HH:MM:SS" is the same integer (the     *)
(*     time of day plays no part in any decision of the code); 0 stands    *)
(*     for a first line that is empty or is not a timestamp;               *)
(*   - a file name in a log directory is <<digits, suffix>>, for           *)
(*     "<digits><suffix>.log";                                             *)
(*   - a file's content is the set of record ids appended to it;           *)
(*   - a zip archive is a sequence of entries [name, data], so that a      *)
(*     duplicated entry name is representable.                             *)
(* Each method is a sequence of steps, one per file-system call, so that   *)
(* an I/O failure can hit any single call.                                 *)
(***************************************************************************)
EXTENDS Integers, Sequences, FiniteSets, TLC

\* ------------------------------------------------------------------ bounds
\* calls made on the Logger after its construction (clock ticks included)
MaxCalls == 2
\* I/O failures injected
MaxFails == 1

\* self._archive_days
ArchiveDays == 1

Streams == {"main", "error"}

\* ---------------------------------------------------------------- calendar
\* date -> day number (what datetime.date comparison and timedelta act on)
DaysFromCivil(y, m, d) ==
    LET yy  == IF m <= 2 THEN y - 1 ELSE y
        era == yy \div 400
        yoe == yy - era * 400
        mp  == IF m > 2 THEN m - 3 ELSE m + 9
        doy == (153 * mp + 2) \div 5 + d - 1
        doe == yoe * 365 + yoe \div 4 - yoe \div 100 + doy
    IN  era * 146097 + doe - 719468

\* day number -> <<y, m, d>>
CivilFromDays(n) ==
    LET z   == n + 719468
        era == z \div 146097
        doe == z - era * 146097
        yoe == (doe - doe \div 1460 + doe \div 36524 - doe \div 146096) \div 365
        doy == doe - (365 * yoe + yoe \div 4 - yoe \div 100)
        mp  == (5 * doy + 2) \div 153
        d   == doy - (153 * mp + 2) \div 5 + 1
        m   == IF mp < 10 THEN mp + 3 ELSE mp - 9
        y   == yoe + era * 400 + (IF m <= 2 THEN 1 ELSE 0)
    IN  <<y, m, d>>

IsLeap(y) == (y % 4 = 0 /\ y % 100 # 0) \/ y % 400 = 0

DaysInMonth(y, m) ==
    IF m = 2 THEN (IF IsLeap(y) THEN 29 ELSE 28)
    ELSE IF m \in {4, 6, 9, 11} THEN 30 ELSE 31

\* date.strftime("%Y%m%d") / datetime.strftime("%Y-%m-%d %H:%M:%S\n")
strftime(n) ==
    LET c == CivilFromDays(n) IN c[1] * 10000 + c[2] * 100 + c[3]

\* ValueError of strptime
ValueError == -1

\* datetime.strptime(text, "%Y%m%d").date(), and the date of
\* datetime.strptime(line, "%Y-%m-%d %H:%M:%S"); ValueError when the text is
\* no date
strptime(k) ==
    LET y == k \div 10000
        m == (k \div 100) % 100
        d == k % 100
    IN  IF k > 0 /\ y \in 1..9999 /\ m \in 1..12 /\ d >= 1 /\ d <= DaysInMonth(y, m)
        THEN DaysFromCivil(y, m, d)
        ELSE ValueError

\* ------------------------------------------------------------------- state
VARIABLES
    today,      \* datetime.now(self._tz).date(), as a day number
    calls,      \* calls made since construction (bounded by MaxCalls)
    active,     \* [stream -> the active file .latest.log / .latest_error.log]
    dated,      \* [stream -> the other *.log files of the folder: name -> data]
    archive,    \* [stream -> archived_logs.zip / archived_errors.zip]
    temp,       \* [stream -> the .zip.temp file next to the archive]
    own,        \* [stream -> self._logger_handler / self._error_handler is set]
    open,       \* [stream -> append handles held open by FileHandlers of this Logger]
    regNamed,   \* [stream -> handlers of this Logger registered with self._logger]
    regRoot,    \* error handlers of this Logger registered with the root logger
    pc,         \* position inside the running method, "idle" between calls
    op,         \* the method the caller invoked: "warm_up", "rotate", "archive"
    raised,     \* the last call ended by an exception reaching the caller
    loc,        \* local variables of rotate_log_files and archive_old_logs
    pass,       \* [stream -> the last archival pass over the stream's folder]
    rot,        \* the last rotation check: what it saw and what it renamed
    fails       \* I/O failures injected so far (bounded by MaxFails)

fsvars == <<active, dated, archive, temp>>
hvars == <<own, open, regNamed, regRoot>>
vars == <<today, calls, active, dated, archive, temp, own, open, regNamed,
          regRoot, pc, op, raised, loc, pass, rot, fails>>

\* ------------------------------------------------------------------- files
NoFile == [exists |-> FALSE, first |-> 0, recs |-> {}]
File(first, recs) == [exists |-> TRUE, first |-> first, recs |-> recs]
Data(f) == [first |-> f.first, recs |-> f.recs]

NoArchive == [exists |-> FALSE, ok |-> FALSE, entries |-> <<>>]
Zip(entries) == [exists |-> TRUE, ok |-> TRUE, entries |-> entries]
\* a file at the archive path that zipfile cannot open
CorruptZip == [exists |-> TRUE, ok |-> FALSE, entries |-> <<>>]

\* "<digits>.log" and "<digits>_error.log"
Suffix(s) == IF s = "main" THEN "" ELSE "_error"
RotatedName(digits, s) == <<digits, Suffix(s)>>
\* ".latest.log" and ".latest_error.log"
LatestName(s) == <<0, IF s = "main" THEN ".latest" ELSE ".latest_error">>

\* log_file.name.startswith(".latest")
StartsWithLatest(name) == name[2] \in {".latest", ".latest_error"}

\* log_file.stem.split('_error')[0]
DateStr(name) == name[1]

\* log_path.glob("*.log")
Glob(s) == DOMAIN dated[s] \cup (IF active[s].exists THEN {LatestName(s)} ELSE {})

\* zf.namelist()
Namelist(entries) == [i \in 1..Len(entries) |-> entries[i].name]
Names(entries) == {entries[i].name : i \in 1..Len(entries)}

\* zf.getinfo(name) / zf.read(name): the last entry of that name
ReadEntry(entries, name) ==
    LET idx == {i \in 1..Len(entries) : entries[i].name = name}
    IN  entries[CHOOSE i \in idx : \A j \in idx : j <= i]

RemoveKey(f, k) == [x \in DOMAIN f \ {k} |-> f[x]]
PutKey(f, k, v) == [x \in DOMAIN f \cup {k} |-> IF x = k THEN v ELSE f[x]]

RECURSIVE SetToSeq(_)
SetToSeq(S) ==
    IF S = {} THEN <<>>
    ELSE LET x == CHOOSE y \in S : TRUE IN <<x>> \o SetToSeq(S \ {x})

\* -------------------------------------------------------------- bookkeeping
NoDay == 0 - 1

Loc0 == [date |-> NoDay, today |-> NoDay, dir |-> "main", cutoff |-> NoDay,
         files |-> {}, existing |-> <<>>, todo |-> {}]

Pass0 == [state |-> "none", files |-> {}, prevArchive |-> NoArchive,
          prevDated |-> <<>>, swapped |-> FALSE, copyFailed |-> FALSE,
          rmFailed |-> FALSE]

Rot0 == [day |-> NoDay, prev |-> "none", outcome |-> "none", repeat |-> FALSE,
         line |-> 0, renamed |-> [s \in Streams |-> FALSE]]

\* the method returns to its caller
Return ==
    /\ pc' = "idle"
    /\ op' = "none"
    /\ loc' = Loc0
    /\ raised' = FALSE

\* a new call begins: the records of the previous call's archival pass and
\* rotation are dropped; the day of the last rotation check is kept
Forget ==
    /\ pass' = [s \in Streams |-> Pass0]
    /\ rot' = [Rot0 EXCEPT !.day = rot.day,
                           !.prev = IF rot.outcome = "none" THEN rot.prev
                                    ELSE rot.outcome]

\* the method goes on at position p
Goto(p) ==
    /\ pc' = p
    /\ UNCHANGED <<op, raised>>

\* an exception leaves the method and reaches the caller
Raise ==
    /\ pc' = "idle"
    /\ op' = "none"
    /\ loc' = Loc0
    /\ raised' = TRUE

\* one more injected I/O failure
Fail ==
    /\ fails < MaxFails
    /\ fails' = fails + 1

\* --------------------------------------------------------------- handlers
\* Logger.create_handler: two FileHandlers opened in mode "a" (which creates
\* a missing file), added to self._logger; the error one also to the root.
CreateHandler ==
    /\ active' = [s \in Streams |->
                    IF active[s].exists THEN active[s] ELSE File(0, {})]
    /\ own' = [s \in Streams |-> TRUE]
    /\ open' = [s \in Streams |-> open[s] + 1]
    /\ regNamed' = [s \in Streams |-> regNamed[s] + 1]
    /\ regRoot' = regRoot + 1

\* Logger.close_handler
CloseHandler ==
    /\ own' = [s \in Streams |-> FALSE]
    /\ open' = [s \in Streams |-> IF own[s] THEN open[s] - 1 ELSE open[s]]
    /\ regNamed' = [s \in Streams |->
                      IF own[s] THEN regNamed[s] - 1 ELSE regNamed[s]]
    /\ regRoot' = IF own["error"] THEN regRoot - 1 ELSE regRoot

\* ------------------------------------------------------------ the callers
\* the caller acts: a new call begins
Call ==
    /\ pc = "idle"
    /\ calls < MaxCalls
    /\ calls' = calls + 1
    /\ raised' = FALSE

\* the clock passes midnight, between two calls
Tick ==
    /\ Call
    /\ today' = today + 1
    /\ Forget
    /\ UNCHANGED <<fsvars, hvars, pc, op, loc, fails>>

\* a caller invokes warm_up (the constructor's call is the initial state)
CallWarmUp ==
    /\ Call
    /\ pc' = "wu"
    /\ op' = "warm_up"
    /\ pass' = [s \in Streams |-> Pass0]
    /\ rot' = Rot0
    /\ UNCHANGED <<today, fsvars, hvars, loc, fails>>

\* a caller invokes rotate_log_files
CallRotate ==
    /\ Call
    /\ pc' = "rot_check"
    /\ op' = "rotate"
    /\ Forget
    /\ UNCHANGED <<today, fsvars, hvars, loc, fails>>

\* a caller invokes close_handler
CallCloseHandler ==
    /\ Call
    /\ CloseHandler
    /\ Forget
    /\ UNCHANGED <<today, fsvars, pc, op, loc, fails>>

\* a caller invokes archive_old_logs
CallArchive ==
    /\ Call
    /\ pc' = "arch_begin"
    /\ op' = "archive"
    /\ Forget
    /\ UNCHANGED <<today, fsvars, hvars, loc, fails>>

\* a record is logged through main_logger: every registered handler appends
\* it to its file; isError tells whether it reaches the error handlers (a
\* handler that an earlier create_handler left open is taken to be on the
\* active file still)
Write(isError) ==
    /\ Call
    /\ regNamed["main"] > 0
    /\ \A s \in Streams : regNamed[s] > 0 => active[s].exists
    /\ active' = [s \in Streams |->
         IF regNamed[s] > 0 /\ (s = "main" \/ isError)
         THEN [active[s] EXCEPT !.recs = @ \cup {calls + 1}]
         ELSE active[s]]
    /\ Forget
    /\ UNCHANGED <<today, dated, archive, temp, hvars, pc, op, loc, fails>>

WriteRecord == \E isError \in BOOLEAN : Write(isError)

\* ---------------------------------------------------------------- warm_up
\* an active file whose first line is the day before the one it is created on
CreationLineOff(t) == strftime(t - 1)

\* lines 192 and 286: the creation time written as the first line
CreationLine(t) == strftime(t)

\* lines 187-192: no .latest.log yet: create it with its creation time
WarmUpMissing ==
    /\ pc = "wu"
    /\ ~active["main"].exists
    /\ active' = [active EXCEPT !["main"] = File(CreationLine(today), {})]
    /\ Goto("wu_create")
    /\ UNCHANGED <<today, calls, dated, archive, temp, hvars, loc, pass, rot,
                   fails>>

\* line 193
WarmUpCreate ==
    /\ pc = "wu_create"
    /\ CreateHandler
    /\ Return
    /\ UNCHANGED <<today, calls, dated, archive, temp, pass, rot, fails>>

\* lines 194-196: .latest.log exists: create the handlers, then rotate
WarmUpExisting ==
    /\ pc = "wu"
    /\ active["main"].exists
    /\ CreateHandler
    /\ Goto("rot_check")
    /\ UNCHANGED <<today, calls, dated, archive, temp, loc, pass, rot, fails>>

\* ------------------------------------------------------- rotate_log_files
\* a check that takes every first line as a date
AnyLineIsDate(latest_log_ctime) == FALSE

\* lines 255-260: strptime of the first line raised ValueError
Unparseable(latest_log_ctime) == latest_log_ctime = ValueError

\* line 248: not latest_log_path.exists() or not latest_error_log_path.exists()
ActiveMissing == ~active["main"].exists \/ ~active["error"].exists

\* a comparison that takes every date up to today as one to rotate
IsLater(latest_log_date, t) == latest_log_date > t

\* line 266: latest_log_date == today
IsToday(latest_log_date, t) == latest_log_date = t

\* a rotated name taken from the day the rotation runs on
RotationDate(latest_log_date, t) == strftime(t)

\* line 272: previous_date = latest_log_date.strftime("%Y%m%d")
PreviousDate(latest_log_date, t) == strftime(latest_log_date)

\* the record of a rotation check that ends as `outcome`
Checked(outcome) ==
    [day |-> today, prev |-> rot.prev, outcome |-> outcome,
     repeat |-> rot.day = today,
     line |-> active["main"].first,
     renamed |-> [s \in Streams |-> FALSE]]

\* lines 248-267: the checks that end the call without rotating, or line 269
RotCheck ==
    /\ pc = "rot_check"
    /\ IF ActiveMissing
       THEN /\ rot' = Checked("missing")
            /\ Return
       ELSE LET latest_log_date == strptime(active["main"].first) IN
            IF Unparseable(latest_log_date)
            THEN /\ rot' = Checked("unparseable")
                 /\ Return
            ELSE IF IsToday(latest_log_date, today)
            THEN /\ rot' = Checked("fresh")
                 /\ Return
            ELSE /\ rot' = Checked("rotating")
                 /\ loc' = [Loc0 EXCEPT !.date = latest_log_date,
                                        !.today = today]
                 /\ Goto("rot_close")
    /\ UNCHANGED <<today, calls, fsvars, hvars, pass, fails>>

\* line 270
RotClose ==
    /\ pc = "rot_close"
    /\ CloseHandler
    /\ Goto("rot_rename_main")
    /\ UNCHANGED <<today, calls, fsvars, loc, pass, rot, fails>>

\* Path.rename of the active file of stream s to its dated name (an existing
\* file of that name is replaced)
RenameActive(s) ==
    /\ dated' = [dated EXCEPT
           ![s] = PutKey(@, RotatedName(PreviousDate(loc.date, loc.today), s),
                        Data(active[s]))]
    /\ active' = [active EXCEPT ![s] = NoFile]
    /\ rot' = [rot EXCEPT !.renamed[s] = TRUE]

\* line 281
RotRenameMain ==
    /\ pc = "rot_rename_main"
    /\ \/ /\ RenameActive("main")
          /\ Goto("rot_rename_err")
          /\ UNCHANGED <<loc, fails>>
       \/ /\ Fail
          /\ Raise
          /\ rot' = [rot EXCEPT !.outcome = "raised_main"]
          /\ UNCHANGED <<active, dated>>
    /\ UNCHANGED <<today, calls, archive, temp, hvars, pass>>

\* line 282
RotRenameError ==
    /\ pc = "rot_rename_err"
    /\ \/ /\ RenameActive("error")
          /\ Goto("rot_write")
          /\ UNCHANGED <<loc, fails>>
       \/ /\ Fail
          /\ Raise
          /\ rot' = [rot EXCEPT !.outcome = "raised_error"]
          /\ UNCHANGED <<active, dated>>
    /\ UNCHANGED <<today, calls, archive, temp, hvars, pass>>

\* lines 285-286: open(latest_log_path, "w") and the write of the first
\* line; a failure leaves no file (open failed) or an empty one (write failed)
RotWrite ==
    /\ pc = "rot_write"
    /\ \/ /\ active' = [active EXCEPT
                 !["main"] = File(CreationLine(today), {})]
          /\ Goto("arch_begin")
          /\ UNCHANGED <<loc, fails, rot>>
       \/ /\ Fail
          /\ Raise
          /\ rot' = [rot EXCEPT !.outcome = "raised_write"]
          /\ \E f \in {NoFile, File(0, {})} :
                active' = [active EXCEPT !["main"] = f]
    /\ UNCHANGED <<today, calls, dated, archive, temp, hvars, pass>>

\* line 292
RotCreate ==
    /\ pc = "rot_create"
    /\ CreateHandler
    /\ Return
    /\ rot' = [rot EXCEPT !.outcome = "rotated"]
    /\ UNCHANGED <<today, calls, dated, archive, temp, pass, fails>>

\* ------------------------------------------------------- archive_old_logs
\* a cutoff that leaves the file of the cutoff day itself on disk
StrictlyOlder(file_date, cutoff_date) == file_date < cutoff_date

\* line 106: file_date <= cutoff_date
Eligible(file_date, cutoff_date) == file_date <= cutoff_date

\* line 157: arcname not in existing_files_in_archive is the negation of this
AlreadyListed(arcname, existing) ==
    \E i \in 1..Len(existing) : existing[i] = arcname

\* a pass that goes from the temporary archive straight to the removals
RemoveFirst == "arch_rm_src"

\* line 160: the step that follows a temporary archive written without error
AfterBuild == "arch_rm_old"

\* a scan that takes every *.log file of the folder
ScanAll(s, cutoff_date) == Glob(s)

\* a scan that keeps the files whose name is no date
KeepUnparsed(s, cutoff_date) ==
    {n \in Glob(s) :
        /\ ~StartsWithLatest(n)
        /\ \/ strptime(DateStr(n)) = ValueError
           \/ Eligible(strptime(DateStr(n)), cutoff_date)}

\* lines 97-110: files_to_archive of the folder of stream s
FilesToArchive(s, cutoff_date) ==
    {n \in Glob(s) :
        /\ ~StartsWithLatest(n)
        /\ strptime(DateStr(n)) # ValueError
        /\ Eligible(strptime(DateStr(n)), cutoff_date)}

\* lines 91-92: the for loop goes to the next folder, or the method returns
\* (to rotate_log_files at line 292 when that is the caller)
NextDir ==
    IF loc.dir = "main"
    THEN /\ loc' = [loc EXCEPT !.dir = "error", !.files = {},
                               !.existing = <<>>, !.todo = {}]
         /\ Goto("arch_scan")
    ELSE IF op = "archive"
         THEN Return
         ELSE /\ loc' = Loc0
              /\ Goto("rot_create")

\* lines 84-89
ArchBegin ==
    /\ pc = "arch_begin"
    /\ loc' = [Loc0 EXCEPT !.cutoff = today - ArchiveDays]
    /\ pass' = [s \in Streams |-> Pass0]
    /\ Goto("arch_scan")
    /\ UNCHANGED <<today, calls, fsvars, hvars, rot, fails>>

\* lines 93-112: scan the folder; nothing to archive ends this folder's pass
ArchScan ==
    /\ pc = "arch_scan"
    /\ LET s == loc.dir
           files == FilesToArchive(s, loc.cutoff)
       IN  IF files = {}
           THEN /\ pass' = [pass EXCEPT ![s] = [Pass0 EXCEPT
                                !.state = "skipped",
                                !.prevArchive = archive[s],
                                !.prevDated = dated[s]]]
                /\ NextDir
           ELSE /\ pass' = [pass EXCEPT ![s] = [Pass0 EXCEPT
                                !.state = "running", !.files = files,
                                !.prevArchive = archive[s],
                                !.prevDated = dated[s]]]
                /\ loc' = [loc EXCEPT !.files = files, !.todo = files]
                /\ Goto("arch_list")
    /\ UNCHANGED <<today, calls, fsvars, hvars, rot, fails>>

\* lines 115-124: existing_files_in_archive; an archive that cannot be read
\* gives the empty list
ArchList ==
    /\ pc = "arch_list"
    /\ LET s == loc.dir IN
       loc' = [loc EXCEPT !.existing =
                 IF archive[s].exists /\ archive[s].ok
                 THEN Namelist(archive[s].entries) ELSE <<>>]
    /\ Goto("arch_build")
    /\ UNCHANGED <<today, calls, fsvars, hvars, pass, rot, fails>>

\* an entry written without the file's content
EmptyEntry(s, name) == [first |-> 0, recs |-> {}]

\* line 158: zf_write.write(file_path, arcname=arcname) reads the file
EntryData(s, name) ==
    IF name = LatestName(s) THEN Data(active[s]) ELSE dated[s][name]

\* a rebuild that copies no entry of the previous archive
CopiedNone(existing, k, kind) == {}

\* lines 131-151: the indices of existing_files_in_archive whose entry is
\* copied, when the copy of entry k fails: a KeyError skips that entry, any
\* other error ends the copying (k = 0: no failure)
Copied(existing, k, kind) ==
    {i \in 1..Len(existing) :
        IF k = 0 THEN TRUE
        ELSE IF kind = "KeyError" THEN i # k
        ELSE i < k}

\* lines 126-158: the entries of the temporary archive
Rebuilt(s, existing, files, k, kind) ==
    LET keep == Copied(existing, k, kind)
        old  == SelectSeq([i \in 1..Len(existing) |->
                             [i |-> i, e |-> ReadEntry(archive[s].entries,
                                                       existing[i])]],
                          LAMBDA x : x.i \in keep)
        new  == SetToSeq({n \in files : ~AlreadyListed(n, existing)})
    IN  [i \in 1..Len(old) |-> [name |-> old[i].e.name, data |-> old[i].e.data]]
        \o [i \in 1..Len(new) |-> [name |-> new[i], data |-> EntryData(s, new[i])]]

\* lines 126-158: write the temporary archive
ArchBuild ==
    /\ pc = "arch_build"
    /\ LET s == loc.dir IN
       \/ \* every entry copied, every new file added
          /\ temp' = [temp EXCEPT ![s] =
                        Zip(Rebuilt(s, loc.existing, loc.files, 0, "KeyError"))]
          /\ Goto(AfterBuild)
          /\ UNCHANGED <<pass, fails>>
       \/ \* the copy of entry k fails, is logged, and the build goes on
          /\ Fail
          /\ \E k \in 1..Len(loc.existing), kind \in {"KeyError", "Error"} :
                temp' = [temp EXCEPT ![s] =
                           Zip(Rebuilt(s, loc.existing, loc.files, k, kind))]
          /\ pass' = [pass EXCEPT ![s].copyFailed = TRUE]
          /\ Goto(AfterBuild)
       \/ \* opening the temporary archive or adding a file raises
          /\ Fail
          /\ \E t \in {NoArchive, CorruptZip} : temp' = [temp EXCEPT ![s] = t]
          /\ Goto("arch_except")
          /\ UNCHANGED pass
    /\ UNCHANGED <<today, calls, active, dated, archive, hvars, loc, rot>>

\* lines 161-162
ArchRemoveOld ==
    /\ pc = "arch_rm_old"
    /\ LET s == loc.dir IN
       IF ~archive[s].exists
       THEN /\ Goto("arch_rename")
            /\ UNCHANGED <<archive, fails>>
       ELSE \/ /\ archive' = [archive EXCEPT ![s] = NoArchive]
               /\ Goto("arch_rename")
               /\ UNCHANGED fails
            \/ /\ Fail
               /\ Goto("arch_except")
               /\ UNCHANGED archive
    /\ UNCHANGED <<today, calls, active, dated, temp, hvars, loc, pass, rot>>

\* lines 163-164
ArchRename ==
    /\ pc = "arch_rename"
    /\ LET s == loc.dir IN
       \/ /\ archive' = [archive EXCEPT ![s] = temp[s]]
          /\ temp' = [temp EXCEPT ![s] = NoArchive]
          /\ pass' = [pass EXCEPT ![s].swapped = TRUE]
          /\ Goto("arch_rm_src")
          /\ UNCHANGED fails
       \/ /\ Fail
          /\ Goto("arch_except")
          /\ UNCHANGED <<archive, temp, pass>>
    /\ UNCHANGED <<today, calls, active, dated, hvars, loc, rot>>

\* line 172: os.remove(file_path) of the file `name` of the folder of s
Unlink(s, name) ==
    IF name = LatestName(s)
    THEN /\ active' = [active EXCEPT ![s] = NoFile]
         /\ UNCHANGED dated
    ELSE /\ dated' = [dated EXCEPT ![s] = RemoveKey(@, name)]
         /\ UNCHANGED active

\* lines 171-172: remove the next source file, or leave the loop
ArchRemoveSource ==
    /\ pc = "arch_rm_src"
    /\ LET s == loc.dir IN
       IF loc.todo = {}
       THEN /\ pass' = [pass EXCEPT ![s].state = "ok"]
            /\ NextDir
            /\ UNCHANGED <<active, dated, fails>>
       ELSE \E f \in loc.todo :
            \/ /\ Unlink(s, f)
               /\ loc' = [loc EXCEPT !.todo = @ \ {f}]
               /\ Goto("arch_rm_src")
               /\ UNCHANGED <<pass, fails>>
            \/ /\ Fail
               /\ pass' = [pass EXCEPT ![s].rmFailed = TRUE]
               /\ Goto("arch_except")
               /\ UNCHANGED <<active, dated, loc>>
    /\ UNCHANGED <<today, calls, archive, temp, hvars, rot>>

\* lines 174-177
ArchExcept ==
    /\ pc = "arch_except"
    /\ LET s == loc.dir IN
       /\ temp' = [temp EXCEPT ![s] = NoArchive]
       /\ pass' = [pass EXCEPT ![s].state = "failed"]
    /\ NextDir
    /\ UNCHANGED <<today, calls, active, dated, archive, hvars, rot, fails>>

\* ------------------------------------------------------------ the program
\* the day the Logger is constructed
StartDay == DaysFromCivil(2024, 1, 1)

\* what earlier runs can have left in the folders
OldData(n) == [first |-> strftime(n), recs |-> {0 - 1}]
OtherData(n) == [first |-> strftime(n), recs |-> {0 - 2}]
JunkName == <<0, "">>

\* (an active file left by an earlier day's run holds the record 0 of that
\* run)
\* <<.latest.log, .latest_error.log>>: none yet; a first line that is no
\* timestamp; created yesterday, today, or on a later day than today (a clock
\* set back, or a Logger of another timezone); yesterday's without its
\* error file
InitActive ==
    {<<NoFile, NoFile>>, <<File(0, {}), File(0, {})>>,
     <<File(strftime(StartDay - 1), {0}), NoFile>>,
     <<File(strftime(StartDay), {}), File(0, {})>>}
    \cup {<<File(strftime(StartDay - 1), {0}), File(0, {})>>,
          <<File(strftime(StartDay + 1), {0}), File(0, {0})>>}

\* the main folder: its dated files and its archive
InitMainFolder ==
    LET old  == RotatedName(strftime(StartDay - 2), "main")
        older == RotatedName(strftime(StartDay - 3), "main")
        file == [x \in {old} |-> OldData(StartDay - 2)]
    IN  {[dated |-> <<>>, archive |-> NoArchive],
         [dated |-> file, archive |-> NoArchive],
         [dated |-> [x \in {old, JunkName} |-> OldData(StartDay - 2)],
          archive |-> CorruptZip],
         [dated |-> file,
          archive |-> Zip(<<[name |-> old, data |-> OtherData(StartDay - 2)]>>)],
         [dated |-> file,
          archive |-> Zip(<<[name |-> older, data |-> OldData(StartDay - 3)]>>)],
         [dated |-> <<>>,
          archive |-> Zip(<<[name |-> older, data |-> OldData(StartDay - 3)]>>)]}

\* the error folder
InitErrorFolder ==
    LET old == RotatedName(strftime(StartDay - 2), "error") IN
    {[dated |-> <<>>, archive |-> NoArchive],
     [dated |-> [x \in {old} |-> OldData(StartDay - 2)],
      archive |-> Zip(<<[name |-> RotatedName(strftime(StartDay - 3), "error"),
                         data |-> OldData(StartDay - 3)]>>)]}

\* Logger.__init__ at line 76: the handlers are None and warm_up is entered,
\* over whatever earlier runs left in the two folders
Init ==
    /\ today = StartDay
    /\ calls = 0
    /\ \E a \in InitActive :
          active = [s \in Streams |-> IF s = "main" THEN a[1] ELSE a[2]]
    /\ \E mf \in InitMainFolder, ef \in InitErrorFolder :
          /\ dated = [s \in Streams |-> IF s = "main" THEN mf.dated ELSE ef.dated]
          /\ archive = [s \in Streams |->
                          IF s = "main" THEN mf.archive ELSE ef.archive]
    /\ temp = [s \in Streams |-> NoArchive]
    /\ own = [s \in Streams |-> FALSE]
    /\ open = [s \in Streams |-> 0]
    /\ regNamed = [s \in Streams |-> 0]
    /\ regRoot = 0
    /\ pc = "wu"
    /\ op = "warm_up"
    /\ raised = FALSE
    /\ loc = Loc0
    /\ pass = [s \in Streams |-> Pass0]
    /\ rot = Rot0
    /\ fails = 0

Next ==
    \/ Tick
    \/ CallWarmUp
    \/ CallRotate
    \/ CallCloseHandler
    \/ CallArchive
    \/ WriteRecord
    \/ WarmUpMissing
    \/ WarmUpCreate
    \/ WarmUpExisting
    \/ RotCheck
    \/ RotClose
    \/ RotRenameMain
    \/ RotRenameError
    \/ RotWrite
    \/ RotCreate
    \/ ArchBegin
    \/ ArchScan
    \/ ArchList
    \/ ArchBuild
    \/ ArchRemoveOld
    \/ ArchRename
    \/ ArchRemoveSource
    \/ ArchExcept

Spec == Init /\ [][Next]_vars

\* the same program over folders that only this code, under a clock that never
\* went back, has written: no active file created on a later day than today
InitForward ==
    /\ Init
    /\ strptime(active["main"].first) \in {ValueError} \cup (StartDay - 1)..StartDay

SpecForward == InitForward /\ [][Next]_vars

\* ================================================================ claims
\* the dated files the last archival pass over stream s's folder has removed
Removed(s) == DOMAIN pass[s].prevDated \ DOMAIN dated[s]

Finished(s) == pass[s].state \in {"ok", "failed"}
Started(s) == pass[s].state \in {"running", "ok", "failed"}

\* the archive of stream s can be read and has an entry named n
HasEntry(s, n) ==
    archive[s].exists /\ archive[s].ok /\ n \in Names(archive[s].entries)

C2_RemovedIsArchived ==
    \A s \in Streams : \A f \in Removed(s) : HasEntry(s, f)

\* C3 (as stated): during a pass the final archive path holds the previous
\* archive or the complete new one, and after a pass in which a step failed
\* it holds the previous archive and every dated file is still on disk.
C3_FailureLeavesPrevious ==
    \A s \in Streams :
        Started(s) =>
            /\ archive[s] = pass[s].prevArchive \/ pass[s].swapped
            /\ pass[s].state = "failed" =>
                  /\ archive[s] = pass[s].prevArchive
                  /\ dated[s] = pass[s].prevDated

\* C4 (as stated): after a successful pass that found eligible files the
\* entry names of the archive are those of the previous archive together
\* with the eligible files' names, each name once.
C4_EntryNamesAreUnion ==
    \A s \in Streams :
        (pass[s].state = "ok" /\ pass[s].files # {}) =>
            /\ archive[s].exists /\ archive[s].ok
            /\ Names(archive[s].entries)
                 = Names(pass[s].prevArchive.entries) \cup pass[s].files
            /\ \A i, j \in 1..Len(archive[s].entries) :
                  archive[s].entries[i].name = archive[s].entries[j].name
                     => i = j

\* C5 (as stated): every entry of a readable archive is in the archive, with
\* the same content, after a pass, whether the pass succeeded or failed.
C5_EntriesPreserved ==
    \A s \in Streams :
        (Finished(s) /\ pass[s].prevArchive.exists /\ pass[s].prevArchive.ok) =>
            \A i \in 1..Len(pass[s].prevArchive.entries) :
                /\ archive[s].exists /\ archive[s].ok
                /\ \E j \in 1..Len(archive[s].entries) :
                      archive[s].entries[j] = pass[s].prevArchive.entries[i]

\* C6 (as stated): at every instant at most one append handle is open per
\* stream, and at most one handler per stream of this Logger is registered
\* with the named logger and with the root logger.
C6_OneHandlePerStream ==
    /\ \A s \in Streams : open[s] <= 1 /\ regNamed[s] <= 1
    /\ regRoot <= 1

\* the first lines that are timestamps of the days the model's clock and
\* files can carry
Timestamps == {strftime(n) : n \in (StartDay - 4)..(StartDay + MaxCalls + 2)}

\* a step that changes no file, no handle, starts no archival pass and ends
\* the call
NoEffect ==
    /\ active' = active /\ dated' = dated /\ archive' = archive /\ temp' = temp
    /\ own' = own /\ open' = open /\ regNamed' = regNamed /\ regRoot' = regRoot
    /\ pass' = pass
    /\ pc' = "idle"

C8_AbortChangesNothing ==
    [][(/\ pc = "rot_check"
        /\ \/ ~active["main"].exists
           \/ ~active["error"].exists
           \/ active["main"].first \notin Timestamps) => NoEffect]_vars

\* C8 witness: a check gave up on an unparseable first line with both
\* handles open
C8_Witness ==
    /\ pc = "idle"
    /\ rot.outcome = "unparseable"
    /\ \A s \in Streams : own[s] /\ open[s] = 1 /\ active[s].exists

\* the positions of the STALE -> FRESH handoff: handles closed, renames
Handoff == {"rot_rename_main", "rot_rename_err", "rot_write"}

\* C9 (as stated): the handoff is performed only when the date recorded in
\* .latest.log is strictly before today's date.
C9_HandoffOnlyWhenEarlier ==
    pc \in Handoff => loc.date < loc.today

\* C9 (amended): the handoff is performed only when the date recorded in
\* .latest.log differs from today's date, be it earlier or later; for a
\* recorded date equal to today's no file is renamed.
C9_HandoffOnlyWhenNotToday ==
    pc \in Handoff => loc.date # loc.today

\* C9 witness: both active files renamed for a recorded date after today
C9_Witness ==
    /\ pc = "rot_write"
    /\ loc.date > loc.today
    /\ \A s \in Streams :
          RotatedName(strftime(loc.date), s) \in DOMAIN dated[s]

\* C10 (as stated): an I/O failure of a rotation step is caught: no call
\* ends with the exception raised to its caller, and the two active files
\* are both renamed or both still under their active names.
C10_RotationFailureContained ==
    pc = "idle" =>
        /\ ~raised
        /\ rot.renamed["main"] = rot.renamed["error"]

\* C11: when a rotation fires, the active file of each stream becomes the
\* dated file named after the creation date recorded in the first line of
\* .latest.log (the digits of that line, not the day the rotation runs on),
\* and the fresh .latest.log carries today's date in its first line.
C11_RotatedNameIsRecordedDate ==
    /\ \A s \in Streams :
          (rot.renamed[s] /\ pass[s].state = "none") =>
              /\ RotatedName(rot.line, s) \in DOMAIN dated[s]
              /\ ~active[s].exists \/ s = "main"
    /\ rot.outcome = "rotated" =>
          /\ active["main"].exists
          /\ strptime(active["main"].first) = today
          /\ rot.line # active["main"].first

\* the file recorded as created on 2023-12-31 is rotated on 2024-01-01
C11_Witness ==
    /\ pc = "arch_begin"
    /\ rot.renamed["main"] /\ rot.renamed["error"]
    /\ today = StartDay
    /\ <<20231231, "">> \in DOMAIN dated["main"]
    /\ <<20231231, "_error">> \in DOMAIN dated["error"]
    /\ active["main"].first = 20240101

\* the days a file name or a first line of this model can stand for
Days == (StartDay - 4)..(StartDay + MaxCalls + 2)

\* the digits that strftime gives each of those days
DayDigits == [d \in Days |-> strftime(d)]

\* the dated names of a folder listing whose date is at most `cutoff_date`
NamesUpTo(listing, cutoff_date) ==
    {n \in DOMAIN listing :
        \E d \in Days : d <= cutoff_date /\ DateStr(n) = DayDigits[d]}

\* C12: a pass selects a dated file if and only if the date in its name is at
\* most today minus the retention days (a file exactly that old is selected,
\* a younger one is not); a file that is not selected is neither added to the
\* archive nor deleted.
C12_SelectedIffOldEnough ==
    \A s \in Streams :
        pass[s].state # "none" =>
            /\ pass[s].files = NamesUpTo(pass[s].prevDated, today - ArchiveDays)
            /\ Removed(s) \subseteq pass[s].files
            /\ Names(archive[s].entries) \subseteq
                  Names(pass[s].prevArchive.entries) \cup pass[s].files
            /\ Names(temp[s].entries) \subseteq
                  Names(pass[s].prevArchive.entries) \cup pass[s].files

\* a file exactly ArchiveDays old has been archived and deleted
C12_Witness ==
    \E s \in Streams :
        LET n == RotatedName(strftime(today - ArchiveDays), s) IN
        /\ pass[s].state = "ok"
        /\ n \in Removed(s)
        /\ HasEntry(s, n)

\* a file one day younger than the cutoff went through a pass and is on disk
C12_YoungerKept ==
    \E s \in Streams :
        LET n == RotatedName(strftime(today - ArchiveDays + 1), s) IN
        /\ Finished(s) \/ pass[s].state = "skipped"
        /\ n \in DOMAIN pass[s].prevDated
        /\ n \in DOMAIN dated[s]
        /\ ~HasEntry(s, n)

\* the positions inside archive_old_logs
ArchPcs == {"arch_begin", "arch_scan", "arch_list", "arch_build",
            "arch_rm_old", "arch_rename", "arch_rm_src", "arch_except"}

\* a step that leaves the active files as they are and out of the selection,
\* the archive and the temporary archive
ActiveKept ==
    /\ active' = active
    /\ \A s \in Streams :
          /\ LatestName(s) \notin pass'[s].files
          /\ LatestName(s) \notin Names(archive'[s].entries)
          /\ LatestName(s) \notin Names(temp'[s].entries)

\* C13: no step of an archival pass deletes or changes an active file
\* (.latest.log, .latest_error.log), selects it, or writes an entry of its
\* name to the archive or the temporary archive, whatever the retention and
\* whatever date its first line records. (Each stream has one active file
\* name, so the folder holds at most one.)
C13_ActiveFileUntouched == [][(pc \in ArchPcs) => ActiveKept]_vars

\* a pass archived and deleted dated files beside an active file whose own
\* recorded date is at or before the cutoff
C13_Witness ==
    /\ active["main"].exists /\ active["error"].exists
    /\ strptime(active["main"].first) \in Days
    /\ strptime(active["main"].first) <= today - ArchiveDays
    /\ \E s \in Streams : pass[s].state = "ok" /\ Removed(s) # {}

\* a file name that is no date (and no active file)
NotADate(n) == ~StartsWithLatest(n) /\ \A d \in Days : DateStr(n) # DayDigits[d]

\* C14: a .log file whose name does not parse as a date is never selected,
\* never added to the archive and never deleted or changed by a pass, and the
\* eligible files of the same folder are selected all the same.
C14_UnparsedNameLeftAlone ==
    \A s \in Streams :
        \A n \in DOMAIN pass[s].prevDated :
            NotADate(n) =>
                /\ n \in DOMAIN dated[s]
                /\ dated[s][n] = pass[s].prevDated[n]
                /\ n \notin pass[s].files
                /\ n \notin Names(archive[s].entries)
                /\ n \notin Names(temp[s].entries)
                /\ NamesUpTo(pass[s].prevDated, today - ArchiveDays)
                      \subseteq pass[s].files

\* a pass over a folder that holds such a file archived and deleted the
\* eligible file beside it
C14_Witness ==
    /\ pass["main"].state = "ok"
    /\ JunkName \in DOMAIN pass["main"].prevDated
    /\ \E n \in Removed("main") : HasEntry("main", n)

\* no handle of this Logger is held, open or registered anywhere
AllClosed ==
    /\ \A s \in Streams : ~own[s] /\ open[s] = 0 /\ regNamed[s] = 0
    /\ regRoot = 0

\* the step of a close_handler call (the only call that neither moves the
\* clock, nor enters a method, nor appends to a file)
CloseStep ==
    /\ pc = "idle" /\ pc' = "idle"
    /\ calls' = calls + 1
    /\ today' = today
    /\ active' = active

\* the step of a create_handler
CreateStep == pc \in {"wu", "wu_create", "rot_create"} /\ open' # open

\* one step of the property of C15
C15_Step ==
    /\ CloseStep => AllClosed'
    /\ (AllClosed /\ CreateStep) =>
          \A s \in Streams : own'[s] /\ open'[s] = 1 /\ regNamed'[s] = 1

\* C15: after close_handler both owned handles are None, both files are
\* closed and no handler created by this Logger is registered with the named
\* logger or the root logger; a create_handler that follows (the one of a
\* later warm_up) leaves exactly one open handle per stream.
C15_CloseLeavesNoHandle == [][C15_Step]_vars

\* the files a pass removed of which the archive has an entry with the
\* content the file had
ArchivedAsWas(s, f) ==
    /\ HasEntry(s, f)
    /\ ReadEntry(archive[s].entries, f).data = pass[s].prevDated[f]

\* C16 (as stated): for every file that a pass removed from disk, the archive
\* entry of that file's name has the content the removed file had.
C16_RemovedReadsBack ==
    \A s \in Streams : \A f \in Removed(s) : ArchivedAsWas(s, f)

\* C16 (amended): the same for every removed file whose name was not listed
\* in the archive before the pass; a file whose name was already listed is
\* removed without being written to the archive.
C16_AddedReadsBack ==
    \A s \in Streams :
        \A f \in Removed(s) :
            f \notin Names(pass[s].prevArchive.entries) => ArchivedAsWas(s, f)

\* a pass added a file to an archive that had other entries, and removed it
C16_Witness ==
    \E s \in Streams :
        /\ pass[s].state = "ok"
        /\ pass[s].prevArchive.entries # <<>>
        /\ \E f \in Removed(s) :
              /\ f \notin Names(pass[s].prevArchive.entries)
              /\ ArchivedAsWas(s, f)

\* the order of the steps of a rotation, apart from the handles that are open
StepsInOrder ==
    /\ pc \in Handoff => \A s \in Streams : ~own[s]
    /\ pc = "rot_write" => rot.renamed["main"] /\ rot.renamed["error"]
    /\ (pc \in ArchPcs /\ op # "archive") =>
          /\ \A s \in Streams : ~own[s] /\ rot.renamed[s]
          /\ active["main"].exists
    /\ pc = "rot_create" =>
          /\ \A s \in Streams : ~own[s]
          /\ \A s \in Streams : pass[s].state \in {"skipped", "ok", "failed"}
    /\ rot.outcome = "rotated" => \A s \in Streams : own[s]

\* C17: within one rotation both handles are closed before either active
\* file is renamed, the new .latest.log is written after the two renames, the
\* archival pass runs after that write, the handles are reopened only after
\* the pass has finished, and no handle is open on a file when it is renamed.
C17_RotationOrder ==
    /\ StepsInOrder
    /\ pc \in {"rot_rename_main", "rot_rename_err"} =>
          \A s \in Streams : active[s].exists => open[s] = 0

\* the step by which warm_up returns to its caller
WarmUpReturns == op = "warm_up" /\ pc' = "idle" /\ ~raised'

\* both handles are held and open on the active files that exist
HandlesOnActive ==
    \A s \in Streams : own[s] /\ open[s] >= 1 /\ regNamed[s] >= 1 /\ active[s].exists

\* a step that creates .latest.log or writes its first line
WritesFirstLine ==
    /\ active'["main"].exists
    /\ ~active["main"].exists \/ active'["main"].first # active["main"].first

\* warm_up returns with the handles up; through the MISSING branch it returns
\* with no rotation check and no archival pass run
ReturnsWithHandles ==
    WarmUpReturns =>
        /\ HandlesOnActive'
        /\ pc = "wu_create" =>
              /\ rot'.outcome = "none"
              /\ \A s \in Streams : pass'[s].state = "none"

\* one step of the property of C18
C18_Step ==
    /\ ReturnsWithHandles
    /\ WritesFirstLine => active'["main"].first \in Timestamps

\* C18: whenever warm_up returns, both handles are held and open on the
\* active files, in the MISSING branch (with no rotation check and no pass),
\* the FRESH branch, the STALE branch and the aborted rotation; and the first
\* line of .latest.log, whenever the file is created or rewritten, is its
\* creation timestamp.
C18_WarmUpLeavesHandles == [][C18_Step]_vars

\* the day a dated name stands for; ValueError when the name is no date
NameDay(n) == strptime(DateStr(n))

\* one step of the property of C19: a rename of the active file of stream s
\* adds a name the folder did not hold, of a later day than every dated file
\* of the folder and every entry of its archive
C19_Step ==
    \A s \in Streams :
        (rot'.renamed[s] /\ ~rot.renamed[s]) =>
            \E n \in DOMAIN dated'[s] \ DOMAIN dated[s] :
                /\ \A m \in DOMAIN dated[s] :
                      NameDay(m) # ValueError => NameDay(m) < NameDay(n)
                /\ \A m \in Names(archive[s].entries) :
                      NameDay(m) # ValueError => NameDay(m) < NameDay(n)

\* C19: under a clock that never goes back and with no file added from
\* outside, no rotation renames an active file onto an existing dated file:
\* the names that successive rotations produce are strictly increasing.
C19_RotatedNamesIncrease == [][C19_Step]_vars

\* a second rotation, one day after a completed first one, has renamed both
\* active files
C19_Witness ==
    /\ pc = "rot_write"
    /\ rot.prev = "rotated"
    /\ rot.renamed["main"] /\ rot.renamed["error"]
    /\ Cardinality(DOMAIN dated["main"] \cup Names(archive["main"].entries)) >= 2

\* the records appended to the active files: 0 by an earlier run, the others
\* by the calls of this one
Recs == 0..(MaxCalls + 1)

\* the number of places (active file, dated files, archive entries) of a
\* stream that hold record r
Places(a, d, z, r) ==
    (IF a.exists /\ r \in a.recs THEN 1 ELSE 0)
    + Cardinality({n \in DOMAIN d : r \in d[n].recs})
    + Cardinality({i \in 1..Len(z.entries) : r \in z.entries[i].data.recs})

PlacesNow(s, r) == Places(active[s], dated[s], archive[s], r)

\* record r of stream s is on disk: in one of those places or, while a pass
\* is swapping the archive, in the temporary archive
Held(s, r) ==
    \/ PlacesNow(s, r) >= 1
    \/ \E i \in 1..Len(temp[s].entries) : r \in temp[s].entries[i].data.recs

\* no I/O failure so far and no handle left open by an earlier create_handler
Undisturbed ==
    /\ fails = 0
    /\ \A s \in Streams : open[s] = (IF own[s] THEN 1 ELSE 0)

\* one step of the property of C20
C20_Step ==
    Undisturbed' =>
        \A s \in Streams :
            /\ \A r \in Recs :
                  /\ Held(s, r) => Held(s, r)'
                  /\ (pc' = "idle" /\ Held(s, r)') => PlacesNow(s, r)' = 1
            /\ (active'[s].exists /\ ~active[s].exists) => active'[s].recs = {}

====
